---- MODULE Spec2Model ----
(***************************************************************************)
(* Bulk insert / update / upsert helpers of djangobulk (bulk.py), run      *)
(* against the models of bulktest (models.py).                             *)
(*                                                                         *)
(* One action per public operation: insert_many, update_many and           *)
(* insert_or_update_many.  An action is a whole call, the transaction      *)
(* decorator included.  The state is the storage (one table per model and  *)
(* connection) plus a record of the last call: its arguments, the storage  *)
(* before it, and what it produced (return value, exception, the           *)
(* statements it executed, the objects as the call left them).             *)
(*                                                                         *)
(* The database is modelled by what the generated SQL does on a store with *)
(* tuple comparison: columns are NOT NULL (models.py declares no           *)
(* null=True), the id column is assigned by the store, `col = NULL` never  *)
(* matches, and an UPDATE with an empty SET clause is a syntax error.      *)
(* The models used have no date, time or UUID field, so _prep_values       *)
(* always takes its get_db_prep_save branch.                               *)
(***************************************************************************)
EXTENDS Integers, Sequences, FiniteSets, TLC

(* ------------------------------ bounds -------------------------------- *)
\* attribute values of the enumerated objects are 1..MaxVal (or None)
MaxVal == 2
\* longest object list passed to a call
MaxObjs == 2
\* most rows the storage may hold: calls that would exceed it are not taken
MaxRows == 2

(* ------------------------- values and models -------------------------- *)
\* Python None / SQL NULL, encoded outside the range of attribute values
None == -1

\* the value TestModelPreSave.presave assigns to self.a
PresaveA == 5

Conns == {"default", "other"}
DEFAULT_DB_ALIAS == "default"

Models == {"TestModelA", "TestModelPreSave"}

Field(name, auto) == [name |-> name, auto |-> auto]

\* model._meta.fields, in declared order (Django prepends the AutoField id)
meta_fields(model) ==
    IF model = "TestModelA"
    THEN <<Field("id", TRUE), Field("a", FALSE), Field("b", FALSE), Field("c", FALSE)>>
    ELSE <<Field("id", TRUE), Field("a", FALSE)>>

\* model._meta.pk
meta_pk(model) == Field("id", TRUE)

FieldNames(fields) == {fields[i].name : i \in 1..Len(fields)}
ColNames(model) == FieldNames(meta_fields(model))

\* hasattr(obj, 'presave') and callable(obj.presave)
has_presave(model) == model = "TestModelPreSave"

\* An optional iterable-of-names argument: None, or a collection of names.
NoneArg == [none |-> TRUE, names |-> {}]
NamesArg(S) == [none |-> FALSE, names |-> S]

Max(S) == CHOOSE x \in S : \A y \in S : y <= x
Rev(s) == [i \in 1..Len(s) |-> s[Len(s) + 1 - i]]
IndexOf(fields, n) == CHOOSE i \in 1..Len(fields) : fields[i].name = n

(* --------------------------- field selection -------------------------- *)
_model_keys(model, field_names) ==
    IF field_names.none
    THEN <<meta_pk(model)>>
    ELSE SelectSeq(meta_fields(model),
                   LAMBDA f : ~(field_names.names # {} /\ f.name \notin field_names.names))

\* variant of _model_fields: the name filter is not applied
_model_fields_unfiltered(model, field_names) ==
    SelectSeq(meta_fields(model), LAMBDA f : ~f.auto)

_model_fields(model, field_names) ==
    SelectSeq(meta_fields(model),
              LAMBDA f : ~(f.auto \/ (field_names.names # {} /\ f.name \notin field_names.names)))

\* variant of _split_model_fields: only the key fields are left out of the
\* value fields, exclude_fields is not looked at
_split_model_fields_exclude_ignored(model, keys, update_fields, exclude_fields) ==
    LET key_fields == _model_keys(model, keys)
        value_fields == SelectSeq(_model_fields(model, update_fields),
                                  LAMBDA f : f.name \notin FieldNames(key_fields))
    IN  IF key_fields = <<>>
        THEN [raised |-> TRUE, key_fields |-> <<>>, value_fields |-> <<>>]
        ELSE [raised |-> FALSE, key_fields |-> key_fields, value_fields |-> value_fields]

\* [raised |-> TRUE] stands for `raise ValueError("Empty key fields")`
_split_model_fields(model, keys, update_fields, exclude_fields) ==
    LET key_fields == _model_keys(model, keys)
        excluded_field_names == FieldNames(key_fields) \cup exclude_fields.names
        value_fields == SelectSeq(_model_fields(model, update_fields),
                                  LAMBDA f : f.name \notin excluded_field_names)
    IN  IF key_fields = <<>>
        THEN [raised |-> TRUE, key_fields |-> <<>>, value_fields |-> <<>>]
        ELSE [raised |-> FALSE, key_fields |-> key_fields, value_fields |-> value_fields]

(* --------------------------- value preparation ------------------------ *)
\* TestModelPreSave.presave: self.a = 5
presave(attrs) == [attrs EXCEPT !["a"] = PresaveA]

\* f.get_db_prep_save(f.pre_save(obj, add)): pre_save reads the attribute, and
\* the IntegerField / CharField conversion returns a value of the field's own
\* type (or None) as it is.
get_db_prep_save(v) == v

\* The heap h holds the caller's objects (h.objs[ref] is the attribute map of
\* object ref) and counts the presave() invocations on each (h.calls[ref]).
\* _prep_values first runs the hook on the object, then reads the fields.
_prep_values(model, fields, h, ref) ==
    LET h1 == IF has_presave(model)
              THEN [objs  |-> [h.objs  EXCEPT ![ref] = presave(@)],
                    calls |-> [h.calls EXCEPT ![ref] = @ + 1]]
              ELSE h
    IN  [h |-> h1,
         values |-> [i \in 1..Len(fields) |->
                        get_db_prep_save(h1.objs[ref][fields[i].name])]]

\* [_prep_values(fields, o, con, add) for o in objects]
RECURSIVE PrepList(_, _, _, _)
PrepList(model, fields, h, refs) ==
    IF refs = <<>>
    THEN [h |-> h, parameters |-> <<>>]
    ELSE LET p    == _prep_values(model, fields, h, Head(refs))
             rest == PrepList(model, fields, p.h, Tail(refs))
         IN  [h |-> rest.h, parameters |-> <<p.values>> \o rest.parameters]

_build_rows(fields, parameters) ==
    [i \in 1..Len(parameters) |->
        [n \in FieldNames(fields) |-> parameters[i][IndexOf(fields, n)]]]

\* Python values a call can return
PyNone == [type |-> "None", items |-> <<>>]
PyList(s) == [type |-> "list", items |-> s]

(* ------------------------------ the store ----------------------------- *)
\* the id the store assigns to the next inserted row
NextId(rows) == IF rows = {} THEN 1 ELSE Max({r["id"] : r \in rows}) + 1

HasNull(p) == \E i \in 1..Len(p) : p[i] = None

\* SQL `col = %s` for every key column; a NULL parameter matches nothing
WhereMatches(r, key_fields, kvals) ==
    \A i \in 1..Len(key_fields) :
        kvals[i] # None /\ r[key_fields[i].name] = kvals[i]

\* cursor.executemany("INSERT INTO t (cols) VALUES (...)", parameters): one
\* row per parameter tuple, in order; a NULL in a column is an IntegrityError.
\* done is the store as the rows executed before the failure left it.
RECURSIVE ExecInsert(_, _, _, _)
ExecInsert(model, rows, fields, parameters) ==
    IF parameters = <<>> THEN [ok |-> TRUE, rows |-> rows]
    ELSE IF HasNull(Head(parameters)) THEN [ok |-> FALSE, rows |-> rows]
    ELSE LET p   == Head(parameters)
             new == [n \in ColNames(model) |->
                        IF n \in FieldNames(fields) THEN p[IndexOf(fields, n)]
                        ELSE NextId(rows)]
         IN  ExecInsert(model, rows \cup {new}, fields, Tail(parameters))

\* cursor.executemany("UPDATE t SET v=%s,.. WHERE k=%s AND ..", parameters):
\* a parameter tuple is (value fields..., key fields...); every matching row
\* is assigned; assigning NULL to a matching row is an IntegrityError.
RECURSIVE ExecUpdate(_, _, _, _)
ExecUpdate(rows, key_fields, value_fields, parameters) ==
    IF parameters = <<>> THEN [ok |-> TRUE, rows |-> rows]
    ELSE LET p     == Head(parameters)
             nv    == Len(value_fields)
             vals  == SubSeq(p, 1, nv)
             kvals == SubSeq(p, nv + 1, Len(p))
             hit   == {r \in rows : WhereMatches(r, key_fields, kvals)}
         IN  IF hit # {} /\ HasNull(vals) THEN [ok |-> FALSE, rows |-> rows]
             ELSE ExecUpdate(
                    {IF r \in hit
                     THEN [n \in DOMAIN r |->
                             IF n \in FieldNames(value_fields)
                             THEN vals[IndexOf(value_fields, n)] ELSE r[n]]
                     ELSE r : r \in rows},
                    key_fields, value_fields, Tail(parameters))

\* What a failed executemany leaves behind when no transaction encloses it:
\* a driver that runs the statement once per parameter tuple keeps the rows
\* done before the failure (perRow), one that sends a single multi-row
\* statement keeps none.
AfterStatement(before, res, perRow) ==
    IF res.ok \/ perRow THEN res.rows ELSE before

(* --------------------------- the operations --------------------------- *)
\* A running call carries ctx: the heap h, the rows of the table it writes
\* (as the store holds them if nothing is rolled back), the exception raised
\* ("" for none) and the statements sent to the store.
Raise(ctx, e) == [ctx EXCEPT !.exc = e]

\* variant of _insert_many: an object listed several times is inserted once
_insert_many_once_per_object(model, refs, truth, skip_result, ctx, perRow) ==
    IF ~truth THEN [ctx |-> ctx, ret |-> PyNone]
    ELSE LET first  == {i \in 1..Len(refs) :
                          \A j \in 1..(i - 1) : refs[j] # refs[i]}
             once   == [k \in 1..Cardinality(first) |->
                          refs[CHOOSE i \in first :
                                 Cardinality({j \in first : j <= i}) = k]]
             fields == _model_fields(model, NoneArg)
             prep   == PrepList(model, fields, ctx.h, once)
             res    == ExecInsert(model, ctx.rows, fields, prep.parameters)
             ctx1   == [h |-> prep.h,
                        rows |-> AfterStatement(ctx.rows, res, perRow),
                        exc |-> IF res.ok THEN "" ELSE "IntegrityError",
                        stmts |-> Append(ctx.stmts, "INSERT")]
         IN  IF ~res.ok THEN [ctx |-> ctx1, ret |-> PyNone]
             ELSE IF ~skip_result
             THEN [ctx |-> ctx1, ret |-> PyList(_build_rows(fields, prep.parameters))]
             ELSE [ctx |-> ctx1, ret |-> PyList(<<>>)]

\* truth is the Python truth value of `objects`: a list is false when empty,
\* a generator is always true.
_insert_many(model, refs, truth, skip_result, ctx, perRow) ==
    IF ~truth THEN [ctx |-> ctx, ret |-> PyNone]
    ELSE LET fields == _model_fields(model, NoneArg)
             prep   == PrepList(model, fields, ctx.h, refs)
             res    == ExecInsert(model, ctx.rows, fields, prep.parameters)
             sent   == IF prep.parameters = <<>> THEN ctx.stmts
                       ELSE Append(ctx.stmts, "INSERT")
             ctx1   == [h |-> prep.h,
                        rows |-> AfterStatement(ctx.rows, res, perRow),
                        exc |-> IF res.ok THEN "" ELSE "IntegrityError",
                        stmts |-> sent]
         IN  IF ~res.ok THEN [ctx |-> ctx1, ret |-> PyNone]
             ELSE IF ~skip_result
             THEN [ctx |-> ctx1, ret |-> PyList(_build_rows(fields, prep.parameters))]
             ELSE [ctx |-> ctx1, ret |-> PyList(<<>>)]

_update_many(model, refs, key_fields, value_fields, skip_result, ctx, perRow) ==
    IF refs = <<>> THEN [ctx |-> ctx, ret |-> PyNone]
    ELSE LET param_fields == value_fields \o key_fields
             prep == PrepList(model, param_fields, ctx.h, refs)
             \* "UPDATE t SET  WHERE ..." does not parse
             res  == IF value_fields = <<>> THEN [ok |-> FALSE, rows |-> ctx.rows]
                     ELSE ExecUpdate(ctx.rows, key_fields, value_fields, prep.parameters)
             ctx1 == [h |-> prep.h,
                      rows |-> AfterStatement(ctx.rows, res, perRow),
                      exc |-> IF res.ok THEN ""
                              ELSE IF value_fields = <<>> THEN "ProgrammingError"
                              ELSE "IntegrityError",
                      stmts |-> Append(ctx.stmts, "UPDATE")]
         IN  IF ~res.ok THEN [ctx |-> ctx1, ret |-> PyNone]
             ELSE IF ~skip_result
             THEN [ctx |-> ctx1, ret |-> PyList(_build_rows(param_fields, prep.parameters))]
             ELSE [ctx |-> ctx1, ret |-> PyList(<<>>)]

\* The generator _filter_objects, run to its end: the objects it yields, in
\* the order it yields them.  (It is consumed lazily by _insert_many; running
\* it first gives the same values and the same number of presave() calls.)
RECURSIVE FilterLoop(_, _, _, _, _)
FilterLoop(model, key_fields, h, refs, keyset) ==
    IF refs = <<>> THEN [h |-> h, yielded |-> <<>>]
    ELSE LET p == _prep_values(model, key_fields, h, Head(refs))
         IN  IF p.values \in keyset
             THEN FilterLoop(model, key_fields, p.h, Tail(refs), keyset)
             ELSE LET rest == FilterLoop(model, key_fields, p.h, Tail(refs),
                                         keyset \cup {p.values})
                  IN  [h |-> rest.h, yielded |-> <<Head(refs)>> \o rest.yielded]

\* variants of _filter_objects: the first object of a key tuple is kept;
\* the kept objects are handed on in input order
_filter_objects_first_wins(model, h, refs, key_fields) ==
    FilterLoop(model, key_fields, h, refs, {})
_filter_objects_input_order(model, h, refs, key_fields) ==
    LET f == FilterLoop(model, key_fields, h, Rev(refs), {})
    IN  [h |-> f.h, yielded |-> Rev(f.yielded)]

\* variant of _filter_objects: no object is filtered out
_filter_objects_keep_all(model, h, refs, key_fields) ==
    [h |-> PrepList(model, key_fields, h, Rev(refs)).h, yielded |-> Rev(refs)]

_filter_objects(model, h, refs, key_fields) ==
    FilterLoop(model, key_fields, h, Rev(refs), {})

\* The value of a call before the decorator: ctx, and what it returns
\* (value: for insert_many / update_many; inserted, updated: the pair of
\* insert_or_update_many).
Outcome(ctx, type, value, inserted, updated) ==
    [ctx |-> ctx, type |-> IF ctx.exc # "" THEN "raise" ELSE type,
     value |-> value, inserted |-> inserted, updated |-> updated]

insert_many_body(c, ctx) ==
    LET r == _insert_many(c.model, c.objects, c.objects # <<>>, c.skip_result,
                          ctx, c.perRow)
    IN  Outcome(r.ctx, "value", r.ret, PyNone, PyNone)

update_many_body(c, ctx) ==
    LET split == _split_model_fields(c.model, c.keys, c.update_fields, c.exclude_fields)
    IN  IF split.raised
        THEN Outcome(Raise(ctx, "ValueError"), "value", PyNone, PyNone, PyNone)
        ELSE LET r == _update_many(c.model, c.objects, split.key_fields,
                                   split.value_fields, TRUE, ctx, c.perRow)
             IN  Outcome(r.ctx, "value", PyNone, PyNone, PyNone)

\* variant of should_update: skip_update is not looked at
should_update_always(skip_update) == TRUE

\* `if not skip_update:` guards the update of the objects found in storage
should_update(skip_update) == ~skip_update

\* cursor.execute("SELECT keys FROM t WHERE (keys) IN ((..),(..))"); fetchall
SelectExisting(rows, key_fields, parameters) ==
    {[i \in 1..Len(key_fields) |-> r[key_fields[i].name]] :
        r \in {q \in rows : \E j \in 1..Len(parameters) :
                                WhereMatches(q, key_fields, parameters[j])}}

\* the members of S among 1..n, ascending
Indexes(n, S) == SelectSeq([i \in 1..n |-> i], LAMBDA i : i \in S)

insert_or_update_many_body(c, ctx) ==
    IF c.objects = <<>>
    THEN Outcome(ctx, "tuple", PyNone, PyList(<<>>), PyList(<<>>))
    ELSE
    LET split == _split_model_fields(c.model, c.keys, c.update_fields, c.exclude_fields)
    IN  IF split.raised
        THEN Outcome(Raise(ctx, "ValueError"), "tuple", PyNone, PyNone, PyNone)
        ELSE
        LET key_fields   == split.key_fields
            value_fields == split.value_fields
            n            == Len(c.objects)
            \* object_keys: (o, key tuple) for each object
            okeys        == PrepList(c.model, key_fields, ctx.h, c.objects)
            existing     == SelectExisting(ctx.rows, key_fields, okeys.parameters)
            ctx1         == [ctx EXCEPT !.h = okeys.h,
                                        !.stmts = Append(@, "SELECT")]
            upd_idx      == Indexes(n, {i \in 1..n : okeys.parameters[i] \in existing})
            update_objects == [j \in 1..Len(upd_idx) |-> c.objects[upd_idx[j]]]
            upd          == IF should_update(c.skip_update)
                            THEN _update_many(c.model, update_objects, key_fields,
                                              value_fields, FALSE, ctx1, c.perRow)
                            ELSE [ctx |-> ctx1, ret |-> PyList(<<>>)]
        IN  IF upd.ctx.exc # ""
            THEN Outcome(upd.ctx, "tuple", PyNone, PyNone, PyNone)
            ELSE
            LET ins_idx  == Indexes(n, {i \in 1..n : okeys.parameters[i] \notin existing})
                insert_objects == [j \in 1..Len(ins_idx) |-> c.objects[ins_idx[j]]]
                filtered == _filter_objects(c.model, upd.ctx.h, insert_objects, key_fields)
                ins      == _insert_many(c.model, filtered.yielded, TRUE, FALSE,
                                         [upd.ctx EXCEPT !.h = filtered.h], c.perRow)
            IN  Outcome(ins.ctx, "tuple", PyNone, ins.ret, upd.ret)

\* @transaction_management: transaction.atomic(using=kwargs.get('using')).
\* The function writes to connection c.using; the atomic block is on the
\* connection named by the keyword (the default connection when `using` was
\* not given by keyword).  An exception rolls back the atomic block's
\* connection; statements on another connection were committed as they ran.
atomic_using(c) == IF c.usingHow = "keyword" THEN c.using ELSE DEFAULT_DB_ALIAS

transaction_management(c, before, o) ==
    IF o.ctx.exc # "" /\ atomic_using(c) = c.using THEN before ELSE o.ctx.rows

(* ------------------------------- state -------------------------------- *)
VARIABLES
    db,     \* db[using][model]: the rows of the model's table on a connection
    pre,    \* db as it was before the call
    call,   \* the call that has returned (operation and arguments), or NoCall
    out     \* what that call produced

vars == <<db, pre, call, out>>

NoCall == [op |-> "none"]
NoOut == [type |-> "none"]

Init ==
    /\ db = [u \in Conns |-> [m \in Models |-> {}]]
    /\ pre = db
    /\ call = NoCall
    /\ out = NoOut

\* the rows held by the tables T of db
RECURSIVE CountRows(_)
CountRows(T) ==
    IF T = {} THEN 0
    ELSE LET t == CHOOSE y \in T : TRUE
         IN  Cardinality(db[t[1]][t[2]]) + CountRows(T \ {t})
TotalRows == CountRows(Conns \X Models)

\* A call starts with the objects the caller passes, no presave() call made,
\* the table as it is, no exception and no statement sent.
Ctx0(c) ==
    [h |-> [objs |-> c.objs, calls |-> [i \in 1..Len(c.objs) |-> 0]],
     rows |-> db[c.using][c.model], exc |-> "", stmts |-> <<>>]

\* One whole call with arguments c whose body came to outcome o.
Run(c, o) ==
    LET before == db[c.using][c.model]
        after  == transaction_management(c, before, o)
    IN  /\ TotalRows - Cardinality(before) + Cardinality(o.ctx.rows) <= MaxRows
        /\ db' = [db EXCEPT ![c.using][c.model] = after]
        /\ pre' = db
        /\ call' = c
        /\ out' = [type |-> o.type, exc |-> o.ctx.exc, value |-> o.value,
                   inserted |-> o.inserted, updated |-> o.updated,
                   stmts |-> o.ctx.stmts, objs |-> o.ctx.h.objs,
                   presave_calls |-> o.ctx.h.calls]

insert_many(c) == Run(c, insert_many_body(c, Ctx0(c)))
update_many(c) == Run(c, update_many_body(c, Ctx0(c)))
insert_or_update_many(c) == Run(c, insert_or_update_many_body(c, Ctx0(c)))

\* The caller is done with the result of its call and goes on to the next
\* one, as each test of tests.py does between its calls.
caller_continues ==
    /\ call.op # "none"
    /\ call' = NoCall
    /\ out' = NoOut
    /\ pre' = db
    /\ UNCHANGED db

(* ------------------------------- inputs ------------------------------- *)
\* Object lists of up to MaxObjs entries over the objects O; an entry is a
\* reference into the heap objs, so one object may occur several times.
RefPatterns(n) ==
    {r \in [1..n -> 1..n] :
        \A i \in 1..n : r[i] <= (IF i = 1 THEN 1
                                 ELSE Max({r[j] : j \in 1..(i - 1)}) + 1)}
HeapSize(r) == IF r = <<>> THEN 0 ELSE Max({r[i] : i \in 1..Len(r)})
Batches(O) ==
    UNION {{[objs |-> h, refs |-> r] : h \in [1..HeapSize(r) -> O]} :
             r \in UNION {RefPatterns(n) : n \in 0..MaxObjs}}

\* the same, every entry another object
DistinctBatches(O) ==
    UNION {{[objs |-> h, refs |-> [i \in 1..n |-> i]] : h \in [1..n -> O]} :
             n \in 0..MaxObjs}

\* how `using` reaches the call: not given, by keyword, or by position
Using(u, how) == [using |-> u, how |-> how]

\* an (keys, update_fields, exclude_fields) choice
Opt(k, uf, ef) == [keys |-> k, update_fields |-> uf, exclude_fields |-> ef]

\* The calls of an operation on model M: object lists B, option choices F,
\* connections U, driver behaviours D, skip_result values SR, skip_update
\* values SU.
InsertCalls(M, B, U, D, SR) ==
    {[op |-> "insert_many", model |-> M, objs |-> b.objs, objects |-> b.refs,
      keys |-> NoneArg, using |-> u.using, usingHow |-> u.how,
      skip_update |-> FALSE, update_fields |-> NoneArg,
      exclude_fields |-> NoneArg, skip_result |-> sr, perRow |-> d] :
        b \in B, u \in U, sr \in SR, d \in D}

UpdateCalls(M, B, F, U, D) ==
    {[op |-> "update_many", model |-> M, objs |-> b.objs, objects |-> b.refs,
      keys |-> f.keys, using |-> u.using, usingHow |-> u.how,
      skip_update |-> FALSE, update_fields |-> f.update_fields,
      exclude_fields |-> f.exclude_fields, skip_result |-> TRUE, perRow |-> d] :
        b \in B, f \in F, u \in U, d \in D}

UpsertCalls(M, B, F, U, D, SU) ==
    {[op |-> "insert_or_update_many", model |-> M, objs |-> b.objs,
      objects |-> b.refs, keys |-> f.keys, using |-> u.using, usingHow |-> u.how,
      skip_update |-> su, update_fields |-> f.update_fields,
      exclude_fields |-> f.exclude_fields, skip_result |-> FALSE, perRow |-> d] :
        b \in B, f \in F, u \in U, su \in SU, d \in D}

Vals == 1..MaxVal

\* TestModelA objects: not saved (id None), or any (id None or 1)
NewObjectsA == [id : {None}, a : Vals, b : Vals, c : Vals]
ObjectsA == [id : {None, 1}, a : Vals, b : Vals, c : Vals]

\* keys by name, with and without update_fields / exclude_fields
NamedOpts ==
    {Opt(NamesArg(k), f[1], f[2]) :
        k \in {{"a"}, {"a", "b"}, {"x"}},
        f \in {<<NoneArg, NoneArg>>, <<NamesArg({"b"}), NoneArg>>,
               <<NoneArg, NamesArg({"c"})>>}}
\* keys None (the primary key) and keys empty
PkOpts == {Opt(NoneArg, NoneArg, NoneArg), Opt(NamesArg({}), NoneArg, NoneArg)}

OnDefault == {Using("default", "omitted")}

(* The calls on TestModelA over the default connection, for the driver      *)
(* behaviours D.                                                            *)
InsertCallsA(D) ==
    InsertCalls("TestModelA", Batches(NewObjectsA), OnDefault, D, BOOLEAN)
UpdateCallsA(D) ==
    UpdateCalls("TestModelA", Batches(NewObjectsA), NamedOpts, OnDefault, D)
    \cup UpdateCalls("TestModelA", Batches(ObjectsA), PkOpts, OnDefault, D)
UpsertCallsA(D) ==
    UpsertCalls("TestModelA", Batches(NewObjectsA), NamedOpts, OnDefault, D,
                BOOLEAN)
    \cup UpsertCalls("TestModelA", Batches(ObjectsA), PkOpts, OnDefault, D,
                     BOOLEAN)

Idle == call.op = "none"

Next ==
    \/ Idle /\ \E c \in InsertCallsA({FALSE}) : insert_many(c)
    \/ Idle /\ \E c \in UpdateCallsA({FALSE}) : update_many(c)
    \/ Idle /\ \E c \in UpsertCallsA({FALSE}) : insert_or_update_many(c)
    \/ caller_continues

Spec == Init /\ [][Next]_vars

(* Upserts of unsaved TestModelA objects on key a: with and without          *)
(* skip_update, and with the update restricted to field b.                  *)
BoxedObjects == [id : {None}, a : {1, 2}, b : {1, 2}, c : {1, 2}]
OnA == Opt(NamesArg({"a"}), NoneArg, NoneArg)
OnAOnlyB == Opt(NamesArg({"a"}), NamesArg({"b"}), NoneArg)

UpsertCallsK ==
    UpsertCalls("TestModelA", DistinctBatches(BoxedObjects), {OnA}, OnDefault,
                {FALSE}, BOOLEAN)
    \cup UpsertCalls("TestModelA", DistinctBatches(BoxedObjects), {OnAOnlyB},
                     OnDefault, {FALSE}, {FALSE})

NextUpsert ==
    \/ Idle /\ \E c \in UpsertCallsK : insert_or_update_many(c)
    \/ caller_continues

SpecUpsert == Init /\ [][NextUpsert]_vars

(* Inserts of unsaved TestModelA objects, and updates on key a restricted   *)
(* to field b.                                                              *)
InsertCallsK ==
    InsertCalls("TestModelA", DistinctBatches(BoxedObjects), OnDefault, {FALSE},
                {TRUE})
UpdateCallsK ==
    UpdateCalls("TestModelA", DistinctBatches(BoxedObjects), {OnAOnlyB},
                OnDefault, {FALSE})

NextUpdate ==
    \/ Idle /\ \E c \in InsertCallsK : insert_many(c)
    \/ Idle /\ \E c \in UpdateCallsK : update_many(c)
    \/ caller_continues

SpecUpdate == Init /\ [][NextUpdate]_vars

(* Calls on either connection, `using` given in each way, with objects the  *)
(* store rejects (c is None) and both driver behaviours.                    *)
ObjectsU == [id : {None}, a : Vals, b : {1}, c : Vals \cup {None}]
OptsU == {Opt(NamesArg({"a"}), NoneArg, NoneArg)}
Usings == {Using("default", "omitted"), Using("other", "keyword"),
           Using("other", "positional")}

InsertCallsU ==
    InsertCalls("TestModelA", Batches(ObjectsU), Usings, BOOLEAN, BOOLEAN)
UpdateCallsU == UpdateCalls("TestModelA", Batches(ObjectsU), OptsU, Usings, BOOLEAN)
UpsertCallsU ==
    UpsertCalls("TestModelA", Batches(ObjectsU), OptsU, Usings, BOOLEAN, BOOLEAN)

NextUsing ==
    \/ Idle /\ \E c \in InsertCallsU : insert_many(c)
    \/ Idle /\ \E c \in UpdateCallsU : update_many(c)
    \/ Idle /\ \E c \in UpsertCallsU : insert_or_update_many(c)
    \/ caller_continues

SpecUsing == Init /\ [][NextUsing]_vars

(* Calls with objects of TestModelPreSave, which defines presave().         *)
ObjectsP == [id : {None, 1}, a : Vals]
OptsP == {Opt(NoneArg, NoneArg, NoneArg), Opt(NamesArg({"a"}), NoneArg, NoneArg)}

InsertCallsP ==
    InsertCalls("TestModelPreSave", DistinctBatches(ObjectsP), OnDefault, {FALSE},
                BOOLEAN)
UpdateCallsP ==
    UpdateCalls("TestModelPreSave", DistinctBatches(ObjectsP), OptsP, OnDefault, {FALSE})
UpsertCallsP ==
    UpsertCalls("TestModelPreSave", DistinctBatches(ObjectsP), OptsP, OnDefault,
                {FALSE}, BOOLEAN)

NextPresave ==
    \/ Idle /\ \E c \in InsertCallsP : insert_many(c)
    \/ Idle /\ \E c \in UpdateCallsP : update_many(c)
    \/ Idle /\ \E c \in UpsertCallsP : insert_or_update_many(c)
    \/ caller_continues

SpecPresave == Init /\ [][NextPresave]_vars

(* Upserts of unsaved TestModelA objects on key a with the update           *)
(* restricted: by update_fields, by exclude_fields, and by an update_fields *)
(* that names the key field.                                                *)
RestrictedOpts ==
    {Opt(NamesArg({"a"}), NamesArg({"b"}), NoneArg),
     Opt(NamesArg({"a"}), NoneArg, NamesArg({"c"})),
     Opt(NamesArg({"a"}), NoneArg, NamesArg({"b"})),
     Opt(NamesArg({"a"}), NamesArg({"a", "c"}), NoneArg)}

UpsertCallsR ==
    UpsertCalls("TestModelA", DistinctBatches(BoxedObjects), RestrictedOpts,
                OnDefault, {FALSE}, BOOLEAN)

NextRestricted ==
    \/ Idle /\ \E c \in UpsertCallsR : insert_or_update_many(c)
    \/ caller_continues

SpecRestricted == Init /\ [][NextRestricted]_vars

(* Upserts on the primary key (keys None) and on key a, of saved and        *)
(* unsaved TestModelA objects, some without a value for a.                  *)
ObjectsK == [id : {None, 1}, a : {1, 2, None}, b : {1}, c : {1, 2}]
KeyedOpts ==
    {Opt(NoneArg, NoneArg, NoneArg),
     Opt(NamesArg({"a"}), NoneArg, NoneArg),
     Opt(NamesArg({"a"}), NamesArg({"c"}), NoneArg)}

UpsertCallsS ==
    UpsertCalls("TestModelA", DistinctBatches(ObjectsK), KeyedOpts, OnDefault,
                {FALSE}, BOOLEAN)

NextKeyed ==
    \/ Idle /\ \E c \in UpsertCallsS : insert_or_update_many(c)
    \/ caller_continues

SpecKeyed == Init /\ [][NextKeyed]_vars

(* Inserts only: saved and unsaved TestModelA objects, some of which the    *)
(* store rejects (c is None), and TestModelPreSave objects; an object may   *)
(* be listed several times; either connection, `using` given in each way,  *)
(* and both driver behaviours on a failed statement.                        *)
ObjectsI == [id : {None, 1}, a : {1, 2}, b : {1}, c : {1, None}]
ObjectsQ == [id : {None}, a : {1, 2}]

InsertCallsI ==
    InsertCalls("TestModelA", Batches(ObjectsI), Usings, BOOLEAN, BOOLEAN)
    \cup InsertCalls("TestModelPreSave", Batches(ObjectsQ), OnDefault, {FALSE},
                     BOOLEAN)

NextInsert ==
    \/ Idle /\ \E c \in InsertCallsI : insert_many(c)
    \/ caller_continues

SpecInsert == Init /\ [][NextInsert]_vars

(* ------------------- vocabulary of the properties --------------------- *)
\* These describe a returned call from the outside: its arguments (call),
\* the storage before and after (pre, db) and what came back (out).
IsCall(op) == call.op = op
N == Len(call.objects)
PreRows == pre[call.using][call.model]
PostRows == db[call.using][call.model]
NewRows == {r \in PostRows : \A q \in PreRows : q["id"] # r["id"]}
Succeeded == out.exc = ""

\* object i of the list, as the call left it
Obj(i) == out.objs[call.objects[i]]

AutoNames == {"id"}
NonAutoNames == ColNames(call.model) \ AutoNames

\* the key fields the call matches on (an empty `keys` selects every field)
KeyNames ==
    IF call.keys.none THEN {"id"}
    ELSE IF call.keys.names = {} THEN ColNames(call.model)
    ELSE call.keys.names \cap ColNames(call.model)

\* the value fields: non-auto fields, restricted to update_fields when that
\* is non-empty, minus exclude_fields, minus the key fields
ValueNames ==
    {n \in NonAutoNames :
        /\ (call.update_fields.names = {} \/ n \in call.update_fields.names)
        /\ n \notin call.exclude_fields.names
        /\ n \notin KeyNames}

Proj(x, names) == [n \in names |-> x[n]]
KeyTuple(x) == Proj(x, KeyNames)

\* a key tuple equals the key columns of a row (NULL equals nothing)
SameKey(k, r) == \A n \in KeyNames : k[n] # None /\ k[n] = r[n]
InStorage(k) == \E r \in PreRows : SameKey(k, r)

\* positions of the list routed to update and to insert
UpdatePositions == {i \in 1..N : InStorage(KeyTuple(Obj(i)))}
InsertPositions == {i \in 1..N : ~InStorage(KeyTuple(Obj(i)))}
\* the last position carrying the key tuple of position i
LastOf(i) == Max({j \in 1..N : KeyTuple(Obj(j)) = KeyTuple(Obj(i))})
\* insert positions that survive the removal of same-batch duplicates
KeptPositions == {i \in InsertPositions : LastOf(i) = i}
DroppedDuplicates == Cardinality(InsertPositions) - Cardinality(KeptPositions)

\* a set of positions as the ascending sequence of its members
RECURSIVE Ascending(_)
Ascending(S) ==
    IF S = {} THEN <<>>
    ELSE LET m == Max(S) IN Append(Ascending(S \ {m}), m)

UpsertReturned == IsCall("insert_or_update_many") /\ N > 0 /\ out.type = "tuple"

(* ------------------------------- C1 ----------------------------------- *)
\* C1: a returned insert_or_update_many call on a non-empty list (the update
\* not skipped) returns a pair of lists with one updated record per object
\* whose key tuple was in storage and one inserted record per key tuple that
\* was not, so that len(inserted) + len(updated) is the number of objects
\* minus the same-batch duplicates dropped from the insert group.
C1_Partition ==
    (UpsertReturned /\ ~call.skip_update) =>
        /\ out.inserted.type = "list"
        /\ out.updated.type = "list"
        /\ Len(out.updated.items) = Cardinality(UpdatePositions)
        /\ Len(out.inserted.items) = Cardinality(KeptPositions)
        /\ Len(out.inserted.items) + Len(out.updated.items) = N - DroppedDuplicates

(* ------------------------------- C6 ----------------------------------- *)
\* C6: a returned insert_or_update_many call on a non-empty list returns a
\* pair whose two components are lists, one record per object of the group,
\* also when either group is empty and when skip_update is set.
C6_PairOfLists ==
    UpsertReturned =>
        /\ out.inserted.type = "list"
        /\ out.updated.type = "list"
        /\ Len(out.inserted.items) = Cardinality(KeptPositions)
        /\ Len(out.updated.items) =
              (IF call.skip_update THEN 0 ELSE Cardinality(UpdatePositions))

(* ------------------------------- C2 ----------------------------------- *)
\* the rows of PostRows that were in storage under key tuple k
RowsUnder(k) == {r \in PostRows \ NewRows : SameKey(k, r)}

\* C2: last-write-wins.  After a successful insert_or_update_many call, the
\* key tuples that were absent from storage have produced exactly one new row
\* each, holding the non-auto values of the last object carrying that key
\* tuple; and (the update not being skipped) every row stored under a key
\* tuple of the batch holds the value fields of the last object carrying it.
C2_LastWriteWins ==
    (UpsertReturned /\ Succeeded) =>
        /\ Cardinality(NewRows) = Cardinality(KeptPositions)
        /\ \A i \in KeptPositions :
              Cardinality({r \in NewRows :
                              Proj(r, NonAutoNames) = Proj(Obj(i), NonAutoNames)})
              = Cardinality({j \in KeptPositions :
                              Proj(Obj(j), NonAutoNames) = Proj(Obj(i), NonAutoNames)})
        /\ ~call.skip_update =>
              \A i \in UpdatePositions :
                  \A r \in RowsUnder(KeyTuple(Obj(i))) :
                      Proj(r, ValueNames) = Proj(Obj(LastOf(i)), ValueNames)

\* two objects with one absent key tuple and different values became one row
C2_Witness ==
    /\ UpsertReturned /\ Succeeded
    /\ \E i \in InsertPositions : \E j \in InsertPositions :
          /\ i < j
          /\ KeyTuple(Obj(i)) = KeyTuple(Obj(j))
          /\ Proj(Obj(i), NonAutoNames) # Proj(Obj(j), NonAutoNames)
    /\ Cardinality(NewRows) = 1

(* ------------------------------- C4 ----------------------------------- *)
\* the model fields whose name is in `keys`
NamedKeyFields == call.keys.names \cap ColNames(call.model)

\* C4: update_many and insert_or_update_many, called with a non-empty list
\* and a `keys` that is not None, raise ValueError before any statement and
\* leave storage unchanged whenever `keys` resolves to no model field: it
\* names no field of the model, or it is empty.
C4_EmptyKeysRaise ==
    (/\ IsCall("update_many") \/ IsCall("insert_or_update_many")
     /\ N > 0
     /\ ~call.keys.none
     /\ NamedKeyFields = {}) =>
        /\ out.exc = "ValueError"
        /\ out.stmts = <<>>
        /\ db = pre

(* ------------------------------- C5 ----------------------------------- *)
\* C5: a call of any of the three operations with an empty object list
\* raises nothing, executes no statement, leaves storage unchanged and
\* returns empty results: [] from insert_many, ([], []) from
\* insert_or_update_many.
C5_EmptyInput ==
    (call.op # "none" /\ N = 0) =>
        /\ out.exc = ""
        /\ out.stmts = <<>>
        /\ db = pre
        /\ IsCall("insert_many") => out.value = PyList(<<>>)
        /\ IsCall("insert_or_update_many") =>
              out.inserted = PyList(<<>>) /\ out.updated = PyList(<<>>)

(* ------------------------------- C7 ----------------------------------- *)
\* the record returned for the object at position i
InsertedRecord(i) == Proj(Obj(i), NonAutoNames)
UpdatedRecord(i) == Proj(Obj(i), ValueNames \cup KeyNames)
InsertedRecords(positions) ==
    [j \in 1..Len(positions) |-> InsertedRecord(positions[j])]
UpdatedRecords(positions) ==
    [j \in 1..Len(positions) |-> UpdatedRecord(positions[j])]

\* C7 as claimed: the inserted records are in the input order of the
\* deduplicated insert group, the updated records in the input order of the
\* update group.
C7_InputOrder ==
    UpsertReturned =>
        /\ out.inserted.type = "list" =>
              out.inserted.items = InsertedRecords(Ascending(KeptPositions))
        /\ (out.updated.type = "list" /\ ~call.skip_update) =>
              out.updated.items = UpdatedRecords(Ascending(UpdatePositions))

\* C7 as amended: the inserted records are in the REVERSE of the input order
\* of the deduplicated insert group (each key tuple at its last occurrence);
\* the updated records, when a list is returned, are in input order.
C7_ReverseInsertOrder ==
    UpsertReturned =>
        /\ out.inserted.type = "list" =>
              out.inserted.items =
                  InsertedRecords(Rev(Ascending(KeptPositions)))
        /\ (out.updated.type = "list" /\ ~call.skip_update) =>
              out.updated.items = UpdatedRecords(Ascending(UpdatePositions))

\* two different records were inserted by one call
C7_Witness ==
    /\ UpsertReturned /\ Succeeded
    /\ out.inserted.type = "list"
    /\ Len(out.inserted.items) = 2
    /\ out.inserted.items[1] # out.inserted.items[2]

(* ------------------------------- C8 ----------------------------------- *)
\* C8: with skip_update, insert_or_update_many leaves every row that was in
\* storage as it was, sends no UPDATE, leaves the number of rows under each
\* key tuple that was in storage unchanged, and every row it adds holds the
\* values of an object whose key tuple was absent.
C8_SkipUpdate ==
    (IsCall("insert_or_update_many") /\ N > 0 /\ call.skip_update) =>
        /\ PreRows \subseteq PostRows
        /\ \A i \in 1..Len(out.stmts) : out.stmts[i] # "UPDATE"
        /\ \A q \in PreRows :
              Cardinality({r \in PostRows : KeyTuple(r) = KeyTuple(q)})
              = Cardinality({r \in PreRows : KeyTuple(r) = KeyTuple(q)})
        /\ \A r \in NewRows :
              \E i \in InsertPositions :
                  Proj(r, NonAutoNames) = Proj(Obj(i), NonAutoNames)

\* a skip_update call that met a stored key tuple with other values than the
\* object's, and inserted another object
C8_Witness ==
    /\ IsCall("insert_or_update_many") /\ call.skip_update /\ Succeeded
    /\ \E i \in UpdatePositions : \E r \in PreRows :
          /\ SameKey(KeyTuple(Obj(i)), r)
          /\ Proj(r, ValueNames) # Proj(Obj(i), ValueNames)
    /\ NewRows # {}

(* ------------------------------- C9 ----------------------------------- *)
\* positions of the list whose key values equal those of row r
MatchingPositions(r) == {i \in 1..N : SameKey(KeyTuple(Obj(i)), r)}
RowWithId(rows, id) == CHOOSE r \in rows : r["id"] = id

\* C9: a successful update_many sets the value fields of every stored row
\* whose key values equal those of an input object to that object's values
\* (the last such object's, if several), and leaves unchanged the number of
\* rows, every other field of those rows, and every other row.
C9_UpdateAllMatching ==
    (IsCall("update_many") /\ N > 0 /\ Succeeded) =>
        /\ Cardinality(PostRows) = Cardinality(PreRows)
        /\ {r["id"] : r \in PostRows} = {r["id"] : r \in PreRows}
        /\ \A r \in PreRows :
              LET r2 == RowWithId(PostRows, r["id"])
              IN  IF MatchingPositions(r) = {}
                  THEN r2 = r
                  ELSE /\ Proj(r2, ValueNames) =
                            Proj(Obj(Max(MatchingPositions(r))), ValueNames)
                       /\ Proj(r2, ColNames(call.model) \ ValueNames) =
                            Proj(r, ColNames(call.model) \ ValueNames)

\* one object changed two rows of equal key values, under a restriction of
\* the value fields that kept one of their fields
C9_Witness ==
    /\ IsCall("update_many") /\ Succeeded
    /\ Cardinality({r \in PreRows : MatchingPositions(r) # {} /\ r \notin PostRows}) = 2
    /\ ValueNames # NonAutoNames \ KeyNames
    /\ \E r \in PreRows :
          /\ MatchingPositions(r) # {}
          /\ \E n \in NonAutoNames \ (KeyNames \cup ValueNames) :
                r[n] # Obj(Max(MatchingPositions(r)))[n]

(* ------------------------------- C3 ----------------------------------- *)
StatementFailed == out.exc \in {"IntegrityError", "ProgrammingError"}

\* C3: every call is all-or-nothing on the storage it writes to, whatever
\* connection `using` names and however it is passed: when a statement of
\* the call has failed, storage is as it was before the call.
C3_AllOrNothing ==
    (call.op # "none" /\ StatementFailed) => db = pre

(* ------------------------------- C10 ---------------------------------- *)
\* the positions of the list whose object the call has written to storage
PersistedPositions ==
    IF ~Succeeded THEN {}
    ELSE IF IsCall("insert_many") THEN 1..N
    ELSE IF IsCall("update_many") THEN UpdatePositions
    ELSE IF IsCall("insert_or_update_many")
    THEN KeptPositions \cup (IF call.skip_update THEN {} ELSE UpdatePositions)
    ELSE {}

\* C10: presave() is invoked exactly once on each object a call persists,
\* and the values it sets are the ones persisted: the rows the call wrote
\* hold them.
C10_PresaveOnce ==
    (call.op # "none" /\ has_presave(call.model)) =>
        \A i \in PersistedPositions :
            /\ out.presave_calls[call.objects[i]] = 1
            /\ Obj(i) = presave(call.objs[call.objects[i]])
            /\ \E r \in PostRows :
                  Proj(r, NonAutoNames) = Proj(Obj(i), NonAutoNames)

(* ------------------------------- C11 ---------------------------------- *)
\* the positions of the list whose object has the non-auto values of object i
SameValues(i) ==
    {j \in 1..N : Proj(Obj(j), NonAutoNames) = Proj(Obj(i), NonAutoNames)}

\* C11: a successful insert_many call on a non-empty list adds exactly
\* len(objects) rows to the model's table and changes no row that was there:
\* every position of the list, also the repeated positions of one object,
\* gets a row of its own holding the object's non-auto values; the other
\* tables are as they were.
C11_InsertAddsEach ==
    (IsCall("insert_many") /\ N > 0 /\ Succeeded) =>
        /\ Cardinality(PostRows) = Cardinality(PreRows) + N
        /\ PreRows \subseteq PostRows
        /\ Cardinality(NewRows) = N
        /\ \A i \in 1..N :
              Cardinality({r \in NewRows :
                              Proj(r, NonAutoNames) = Proj(Obj(i), NonAutoNames)})
              = Cardinality(SameValues(i))
        /\ \A u \in Conns, m \in Models :
              <<u, m>> # <<call.using, call.model>> => db[u][m] = pre[u][m]

\* an insert of a list naming one object twice has added two rows that
\* differ in their id only
C11_Witness ==
    /\ IsCall("insert_many")
    /\ Succeeded
    /\ \E i, j \in 1..N : i < j /\ call.objects[i] = call.objects[j]
    /\ Cardinality(PostRows) = Cardinality(PreRows) + N
    /\ \E r, q \in NewRows :
          r["id"] # q["id"] /\ Proj(r, NonAutoNames) = Proj(q, NonAutoNames)

(* ------------------------------- C12 ---------------------------------- *)
\* the call names update_fields or exclude_fields
Restricted == ~call.update_fields.none \/ ~call.exclude_fields.none

\* the positions of the list whose key tuple is that of the stored row r
PositionsOf(r) == {i \in 1..N : SameKey(KeyTuple(Obj(i)), r)}

\* C12: after a successful insert_or_update_many call that names
\* update_fields or exclude_fields, every row that was in storage is still
\* there with its fields outside the value fields (the excluded ones, the
\* ones outside update_fields, the keys) as stored, and, the update not
\* skipped, a row whose key tuple is in the batch has the value fields of the
\* last object carrying it; every object kept for insertion has a new row
\* with all of its non-auto values, the excluded ones too.
C12_RestrictionOnUpdateOnly ==
    (UpsertReturned /\ Succeeded /\ Restricted) =>
        /\ \A r \in PreRows :
              \E q \in PostRows :
                 /\ q["id"] = r["id"]
                 /\ \A n \in ColNames(call.model) \ ValueNames : q[n] = r[n]
                 /\ \A n \in ValueNames :
                       q[n] = (IF PositionsOf(r) # {} /\ ~call.skip_update
                               THEN Obj(Max(PositionsOf(r)))[n]
                               ELSE r[n])
        /\ \A i \in KeptPositions :
              \E q \in NewRows : \A n \in NonAutoNames : q[n] = Obj(i)[n]
        /\ Cardinality(PostRows) = Cardinality(PreRows) + Cardinality(KeptPositions)

\* a call with exclude_fields has updated a row whose excluded field differs
\* from the object's, and has inserted an object whose excluded field is not
\* the one any stored row had
C12_Witness ==
    /\ UpsertReturned /\ Succeeded
    /\ call.exclude_fields.names # {}
    /\ \E r \in PreRows, i \in UpdatePositions :
          /\ SameKey(KeyTuple(Obj(i)), r)
          /\ \E n \in call.exclude_fields.names : Obj(i)[n] # r[n]
          /\ r \notin PostRows
    /\ \E i \in KeptPositions, q \in NewRows :
          /\ Proj(q, NonAutoNames) = Proj(Obj(i), NonAutoNames)
          /\ \A r \in PreRows, n \in call.exclude_fields.names : q[n] # r[n]

(* ------------------------------- C13 ---------------------------------- *)
\* the key tuples of the rows R are pairwise distinct
DistinctKeys(R) == \A r, q \in R : KeyTuple(r) = KeyTuple(q) => r = q

\* the table as the same call, made again on the storage it has left, would
\* leave it
Repeated ==
    transaction_management(call, PostRows,
                           insert_or_update_many_body(call, Ctx0(call)))

\* C13 as stated: an insert_or_update_many call on storage with pairwise
\* distinct key tuples leaves the key tuples pairwise distinct, and the same
\* call made again leaves storage as the first call left it.
C13_DistinctAndIdempotent ==
    (UpsertReturned /\ DistinctKeys(PreRows)) =>
        /\ DistinctKeys(PostRows)
        /\ Repeated = PostRows

\* no key field is auto-generated and no object has None in a key field
StoredKeys ==
    /\ KeyNames \cap AutoNames = {}
    /\ \A i \in 1..N, n \in KeyNames : Obj(i)[n] # None

\* C13, amended: an insert_or_update_many call on storage with pairwise
\* distinct key tuples leaves the key tuples pairwise distinct; and when the
\* key fields are fields the insert writes (none auto-generated) with a
\* value in every object, the same call made again leaves storage as the
\* first call left it.
C13_DistinctAndIdempotentOnStoredKeys ==
    (UpsertReturned /\ DistinctKeys(PreRows)) =>
        /\ DistinctKeys(PostRows)
        /\ StoredKeys => Repeated = PostRows

\* a call on storage that held rows, with a batch of two objects of one
\* absent key, has inserted a row, and made again changes nothing
C13_Witness ==
    /\ UpsertReturned /\ Succeeded
    /\ StoredKeys
    /\ PreRows # {} /\ DistinctKeys(PreRows)
    /\ DroppedDuplicates > 0
    /\ NewRows # {}
    /\ Repeated = PostRows

====
